---- MODULE Spec2Model ----
(***************************************************************************)
(* Model of src/src/rotations.c (rebound): vector arithmetic, quaternion   *)
(* algebra, rotation application, rotation construction and orbital angle  *)
(* extraction.                                                             *)
(*                                                                         *)
(* NUMBERS.  A C double is modelled as an exact extended rational:         *)
(*   [k |-> "fin", n, d]  the rational n/d in lowest terms, d > 0          *)
(*   [k |-> "inf", n, d]  +Infinity (n = 1) or -Infinity (n = -1)          *)
(*   [k |-> "nan", ...]   NaN (0 * Infinity, Infinity - Infinity, ...)     *)
(*   [k |-> "out", ...]   a real number outside the model's numbers: an    *)
(*                        irrational square root, or a rational whose      *)
(*                        terms need more than 30 bits.  It absorbs in     *)
(*                        arithmetic; the inputs are restricted to those   *)
(*                        whose results stay free of "out".                *)
(* Rounding is not modelled: the arithmetic is that of the real numbers,   *)
(* with the IEEE-754 rules for division by zero, Infinity and NaN.         *)
(*                                                                         *)
(* ANGLES.  A double that holds an angle (argument of cos/sin, result of   *)
(* acos/atan2) is modelled as [w, c, s]: the real number 2*pi*w + phi      *)
(* with phi in [0, 2*pi) and (c, s) = (cos phi, sin phi), both rational.   *)
(***************************************************************************)
EXTENDS Integers, Sequences, FiniteSets, TLC

----------------------------------------------------------------------------
(* Call by value: F at the value of a (and b).  C evaluates an expression  *)
(* once and keeps the result in a local variable; Eval1 and Eval2 do the   *)
(* same, where LET would evaluate the expression at every use.             *)

Eval1(a, F(_)) == CHOOSE r \in {F(v) : v \in {a}} : TRUE

Eval2(a, b, F(_, _)) == CHOOSE r \in {F(v, w) : v \in {a}, w \in {b}} : TRUE

----------------------------------------------------------------------------
(* Integer helpers *)

Abs(n) == IF n < 0 THEN -n ELSE n

RECURSIVE GCD(_, _)
GCD(a, b) == IF b = 0 THEN a ELSE GCD(b, a % b)

\* largest k in lo..hi with k*k <= n  (requires lo*lo <= n)
RECURSIVE ISqrtIter(_, _, _)
ISqrtIter(n, lo, hi) ==
    IF lo >= hi THEN lo
    ELSE LET mid == (lo + hi + 1) \div 2
         IN IF mid * mid <= n THEN ISqrtIter(n, mid, hi)
                              ELSE ISqrtIter(n, lo, mid - 1)

ISqrt(n) == ISqrtIter(n, 0, IF n < 46340 THEN n ELSE 46340)

IsSquare(n) == ISqrt(n) * ISqrt(n) = n

\* the terms of a rational stay below 2^30
MaxTerm == 2^30 - 1

\* x * y stays within MaxTerm
MulFits(x, y) == x = 0 \/ Abs(y) <= MaxTerm \div Abs(x)

\* n1/d1 <= n2/d2 for n1, n2 >= 0 and d1, d2 > 0, without products
RECURSIVE FracLe(_, _, _, _)
FracLe(n1, d1, n2, d2) ==
    IF n1 \div d1 # n2 \div d2 THEN n1 \div d1 < n2 \div d2
    ELSE IF n1 % d1 = 0 THEN TRUE
    ELSE IF n2 % d2 = 0 THEN FALSE
    ELSE FracLe(d2, n2 % d2, d1, n1 % d1)

----------------------------------------------------------------------------
(* double arithmetic *)

NaN  == [k |-> "nan", n |-> 0, d |-> 0]
Out  == [k |-> "out", n |-> 0, d |-> 0]
PInf == [k |-> "inf", n |-> 1, d |-> 0]
NInf == [k |-> "inf", n |-> -1, d |-> 0]

\* the rational n/d (d # 0) in lowest terms
MkD(n, d) ==
    IF n = 0 THEN [k |-> "fin", n |-> 0, d |-> 1]
    ELSE LET g == GCD(Abs(n), Abs(d))
         IN [k |-> "fin",
             n |-> (IF d < 0 THEN -n ELSE n) \div g,
             d |-> Abs(d) \div g]

I(n) == MkD(n, 1)
Zero == I(0)
One  == I(1)
Two  == I(2)

IsFin(a) == a.k = "fin"
Sgn(a)   == IF a.n > 0 THEN 1 ELSE IF a.n < 0 THEN -1 ELSE 0

\* a + b
DAdd(a, b) ==
    IF a.k = "out" \/ b.k = "out" THEN Out
    ELSE IF a.k = "nan" \/ b.k = "nan" THEN NaN
    ELSE IF a.k = "inf" THEN (IF b.k = "inf" /\ b.n # a.n THEN NaN ELSE a)
    ELSE IF b.k = "inf" THEN b
    ELSE LET g == GCD(a.d, b.d)
         IN IF /\ MulFits(a.n, b.d \div g) /\ MulFits(b.n, a.d \div g)
               /\ MulFits(a.d \div g, b.d)
            THEN MkD(a.n * (b.d \div g) + b.n * (a.d \div g),
                     (a.d \div g) * b.d)
            ELSE Out

\* -a
DNeg(a) == IF a.k \in {"fin", "inf"} THEN [a EXCEPT !.n = -a.n] ELSE a

\* a - b
DSub(a, b) == DAdd(a, DNeg(b))

\* a * b
DMul(a, b) ==
    IF a.k = "out" \/ b.k = "out" THEN Out
    ELSE IF a.k = "nan" \/ b.k = "nan" THEN NaN
    ELSE IF a.k = "inf" \/ b.k = "inf"
         THEN (IF Sgn(a) * Sgn(b) = 0 THEN NaN
               ELSE [k |-> "inf", n |-> Sgn(a) * Sgn(b), d |-> 0])
    ELSE IF a.n = 0 \/ b.n = 0 THEN Zero
    ELSE LET g1 == GCD(Abs(a.n), b.d)
             g2 == GCD(Abs(b.n), a.d)
         IN IF /\ MulFits(a.n \div g1, b.n \div g2)
               /\ MulFits(a.d \div g2, b.d \div g1)
            THEN MkD((a.n \div g1) * (b.n \div g2),
                     (a.d \div g2) * (b.d \div g1))
            ELSE Out

\* a / b
DDiv(a, b) ==
    IF a.k = "out" \/ b.k = "out" THEN Out
    ELSE IF a.k = "nan" \/ b.k = "nan" THEN NaN
    ELSE IF b.k = "inf" THEN (IF a.k = "inf" THEN NaN ELSE Zero)
    ELSE IF b.n = 0
         THEN (IF Sgn(a) = 0 THEN NaN
               ELSE [k |-> "inf", n |-> Sgn(a), d |-> 0])
    ELSE DMul(a, MkD(b.d, b.n))

\* sqrt(a)
DSqrt(a) ==
    IF a.k \in {"out", "nan"} THEN a
    ELSE IF a.k = "inf" THEN (IF a.n = 1 THEN PInf ELSE NaN)
    ELSE IF a.n < 0 THEN NaN
    ELSE IF IsSquare(a.n) /\ IsSquare(a.d) THEN MkD(ISqrt(a.n), ISqrt(a.d))
    ELSE Out

\* fabs(a)
DFabs(a) == IF a.k \in {"fin", "inf"} THEN [a EXCEPT !.n = Abs(a.n)] ELSE a

\* a <= b   (false when either side is NaN)
DLe(a, b) ==
    /\ a.k \in {"fin", "inf"}
    /\ b.k \in {"fin", "inf"}
    /\ IF a.k = "inf" THEN (a.n = -1 \/ (b.k = "inf" /\ b.n = 1))
       ELSE IF b.k = "inf" THEN b.n = 1
       ELSE IF a.n <= 0 /\ b.n >= 0 THEN TRUE
       ELSE IF a.n >= 0 /\ b.n <= 0 THEN FALSE
       ELSE IF a.n > 0 THEN FracLe(a.n, a.d, b.n, b.d)
       ELSE FracLe(-b.n, b.d, -a.n, a.d)

\* a == b   (false when either side is NaN)
DEq(a, b) == a.k \in {"fin", "inf"} /\ a = b

\* a >= b
DGe(a, b) == DLe(b, a)

\* a < b
DLt(a, b) == DLe(a, b) /\ ~DEq(a, b)

----------------------------------------------------------------------------
(* struct reb_vec3d {x, y, z} and struct reb_rotation {ix, iy, iz, r} *)

Vec(x, y, z) == [x |-> x, y |-> y, z |-> z]

Quat(ix, iy, iz, r) == [ix |-> ix, iy |-> iy, iz |-> iz, r |-> r]

\* a vector / quaternion given by integer components
IVec(x, y, z) == Vec(I(x), I(y), I(z))
IQuat(ix, iy, iz, r) == Quat(I(ix), I(iy), I(iz), I(r))

\* every component is a finite number
VecFinite(v) == IsFin(v.x) /\ IsFin(v.y) /\ IsFin(v.z)
QuatFinite(q) == IsFin(q.ix) /\ IsFin(q.iy) /\ IsFin(q.iz) /\ IsFin(q.r)

\* no component left the numbers of the model
VecInDomain(v) == v.x.k # "out" /\ v.y.k # "out" /\ v.z.k # "out"
QuatInDomain(q) ==
    q.ix.k # "out" /\ q.iy.k # "out" /\ q.iz.k # "out" /\ q.r.k # "out"

----------------------------------------------------------------------------
(* reb_vec3d manipulation functions *)

reb_vec3d_mul(v, s) == Vec(DMul(s, v.x), DMul(s, v.y), DMul(s, v.z))

reb_vec3d_add(v, w) == Vec(DAdd(v.x, w.x), DAdd(v.y, w.y), DAdd(v.z, w.z))

reb_vec3d_cross(a, b) ==
    Vec(DSub(DMul(a.y, b.z), DMul(a.z, b.y)),
        DSub(DMul(a.z, b.x), DMul(a.x, b.z)),
        DSub(DMul(a.x, b.y), DMul(a.y, b.x)))

reb_vec3d_dot(a, b) ==
    DAdd(DAdd(DMul(a.x, b.x), DMul(a.y, b.y)), DMul(a.z, b.z))

reb_vec3d_length_squared(v) == reb_vec3d_dot(v, v)

reb_vec3d_normalize(v) ==
    reb_vec3d_mul(v, DDiv(One, DSqrt(reb_vec3d_length_squared(v))))

----------------------------------------------------------------------------
(* reb_rotation manipulation functions *)

reb_rotation_imag(q) == Vec(q.ix, q.iy, q.iz)

\* a plausible slip: the operands of the Hamilton product exchanged
reb_rotation_mul_swapped(p, q) ==
    [r  |-> DSub(DSub(DSub(DMul(q.r, p.r), DMul(q.ix, p.ix)),
                      DMul(q.iy, p.iy)), DMul(q.iz, p.iz)),
     ix |-> DSub(DAdd(DAdd(DMul(q.r, p.ix), DMul(q.ix, p.r)),
                      DMul(q.iy, p.iz)), DMul(q.iz, p.iy)),
     iy |-> DAdd(DAdd(DSub(DMul(q.r, p.iy), DMul(q.ix, p.iz)),
                      DMul(q.iy, p.r)), DMul(q.iz, p.ix)),
     iz |-> DAdd(DSub(DAdd(DMul(q.r, p.iz), DMul(q.ix, p.iy)),
                      DMul(q.iy, p.ix)), DMul(q.iz, p.r))]

reb_rotation_mul(p, q) ==
    [r  |-> DSub(DSub(DSub(DMul(p.r, q.r), DMul(p.ix, q.ix)),
                      DMul(p.iy, q.iy)), DMul(p.iz, q.iz)),
     ix |-> DSub(DAdd(DAdd(DMul(p.r, q.ix), DMul(p.ix, q.r)),
                      DMul(p.iy, q.iz)), DMul(p.iz, q.iy)),
     iy |-> DAdd(DAdd(DSub(DMul(p.r, q.iy), DMul(p.ix, q.iz)),
                      DMul(p.iy, q.r)), DMul(p.iz, q.ix)),
     iz |-> DAdd(DSub(DAdd(DMul(p.r, q.iz), DMul(p.ix, q.iy)),
                      DMul(p.iy, q.ix)), DMul(p.iz, q.r))]

reb_rotation_length_squared(q) ==
    DAdd(DAdd(DAdd(DMul(q.r, q.r), DMul(q.ix, q.ix)), DMul(q.iy, q.iy)),
         DMul(q.iz, q.iz))

reb_rotation_conjugate(q) ==
    [ix |-> DNeg(q.ix), iy |-> DNeg(q.iy), iz |-> DNeg(q.iz), r |-> q.r]

\* a plausible slip: the conjugation left out, only the division kept
reb_rotation_inverse_noconj(q) ==
    Eval1(DDiv(One, reb_rotation_length_squared(q)), LAMBDA rl2 :
        [r  |-> DMul(q.r, rl2),  ix |-> DMul(q.ix, rl2),
         iy |-> DMul(q.iy, rl2), iz |-> DMul(q.iz, rl2)])

reb_rotation_inverse(q) ==
    Eval2(reb_rotation_conjugate(q),
          DDiv(One, reb_rotation_length_squared(q)), LAMBDA c, rl2 :
        [r  |-> DMul(c.r, rl2),  ix |-> DMul(c.ix, rl2),
         iy |-> DMul(c.iy, rl2), iz |-> DMul(c.iz, rl2)])

----------------------------------------------------------------------------
(* Object rotation functions *)

\* a plausible slip: the second cross product taken with v instead of imag
reb_vec3d_irotate_wrongcross(v, q) ==
    Eval1(reb_rotation_imag(q), LAMBDA imag :
    Eval1(reb_vec3d_mul(reb_vec3d_cross(imag, v), Two), LAMBDA t :
        reb_vec3d_add(v, reb_vec3d_add(reb_vec3d_mul(t, q.r),
                                       reb_vec3d_cross(v, t)))))

\* the vector *v holds after reb_vec3d_irotate(&v, q)
reb_vec3d_irotate(v, q) ==
    Eval1(reb_rotation_imag(q), LAMBDA imag :
    Eval1(reb_vec3d_mul(reb_vec3d_cross(imag, v), Two), LAMBDA t :
    Eval1(reb_vec3d_add(v, reb_vec3d_add(reb_vec3d_mul(t, q.r),
                                         reb_vec3d_cross(imag, t))),
          LAMBDA res : Vec(res.x, res.y, res.z))))

reb_vec3d_rotate(v, q) == reb_vec3d_irotate(v, q)

\* struct reb_particle, its six fields read and written by this file
Particle(pos, vel) ==
    [x |-> pos.x, y |-> pos.y, z |-> pos.z,
     vx |-> vel.x, vy |-> vel.y, vz |-> vel.z]

\* a plausible slip: the velocity rotated from the position fields
reb_particle_irotate_posvel(p, q) ==
    Eval2(reb_vec3d_irotate(Vec(p.x, p.y, p.z), q),
          reb_vec3d_irotate(Vec(p.x, p.y, p.z), q),
          LAMBDA pos, vel : Particle(pos, vel))

\* the particle *p holds after reb_particle_irotate(p, q)
reb_particle_irotate(p, q) ==
    Eval2(reb_vec3d_irotate(Vec(p.x, p.y, p.z), q),
          reb_vec3d_irotate(Vec(p.vx, p.vy, p.vz), q),
          LAMBDA pos, vel : Particle(pos, vel))

----------------------------------------------------------------------------
(* Alternate ways of initializing rotation *)

reb_rotation_identity == Quat(Zero, Zero, Zero, One)

reb_rotation_init_from_to_reduced(from, to) ==
    Eval1(reb_vec3d_normalize(Vec(DAdd(from.x, to.x), DAdd(from.y, to.y),
                                  DAdd(from.z, to.z))), LAMBDA half :
    Eval2(reb_vec3d_cross(from, half), reb_vec3d_dot(from, half),
          LAMBDA cross, dot : Quat(cross.x, cross.y, cross.z, dot)))

\* lines 188-204: the quaternion of the fallback, from is normalized
FallbackRotation(from) ==
    Eval1(Vec(DFabs(from.x), DFabs(from.y), DFabs(from.z)), LAMBDA abs_from :
    Eval1(IF DLe(abs_from.x, abs_from.y) /\ DLe(abs_from.x, abs_from.z)
          THEN IVec(1, 0, 0)
          ELSE IF DLe(abs_from.y, abs_from.z) THEN IVec(0, 1, 0)
          ELSE IVec(0, 0, 1), LAMBDA axis0 :
    Eval1(reb_vec3d_cross(from, axis0), LAMBDA axis :
        Quat(axis.x, axis.y, axis.z, Zero))))

\* a plausible slip: the second stage built from `from` instead of `half`
reb_rotation_init_from_to_path_wrongstage(from0, to0) ==
    Eval2(reb_vec3d_normalize(from0), reb_vec3d_normalize(to0),
          LAMBDA from, to :
    IF DGe(reb_vec3d_dot(from, to), Zero)
    THEN [branch |-> "reduced",
          q |-> reb_rotation_init_from_to_reduced(from, to)]
    ELSE
    Eval1(reb_vec3d_normalize(Vec(DAdd(from.x, to.x), DAdd(from.y, to.y),
                                  DAdd(from.z, to.z))), LAMBDA half :
    IF DEq(reb_vec3d_length_squared(half), Zero)
    THEN [branch |-> "fallback", q |-> FallbackRotation(from)]
    ELSE [branch |-> "twostage",
          q |-> reb_rotation_mul(
                    reb_rotation_init_from_to_reduced(from, half),
                    reb_rotation_init_from_to_reduced(from, to))]))

\* reb_rotation_init_from_to with the branch it returns from:
\*   "reduced"   the return of line 176
\*   "fallback"  one of the returns of lines 193, 199, 204
\*   "twostage"  the return of line 207
reb_rotation_init_from_to_path(from0, to0) ==
    Eval2(reb_vec3d_normalize(from0), reb_vec3d_normalize(to0),
          LAMBDA from, to :
    IF DGe(reb_vec3d_dot(from, to), Zero)
    THEN [branch |-> "reduced",
          q |-> reb_rotation_init_from_to_reduced(from, to)]
    ELSE
    Eval1(reb_vec3d_normalize(Vec(DAdd(from.x, to.x), DAdd(from.y, to.y),
                                  DAdd(from.z, to.z))), LAMBDA half :
    IF DEq(reb_vec3d_length_squared(half), Zero)
    THEN [branch |-> "fallback", q |-> FallbackRotation(from)]
    ELSE [branch |-> "twostage",
          q |-> reb_rotation_mul(
                    reb_rotation_init_from_to_reduced(from, half),
                    reb_rotation_init_from_to_reduced(half, to))]))

reb_rotation_init_from_to(from, to) == reb_rotation_init_from_to_path(from, to).q

\* a plausible slip: the first stage built from z to newz
reb_rotation_init_to_new_axes_reversed(newz, newx) ==
    Eval1(reb_rotation_init_from_to(IVec(0, 0, 1), newz), LAMBDA q1 :
    Eval1(reb_vec3d_irotate(newx, q1), LAMBDA newx1 :
    Eval1(reb_rotation_init_from_to(newx1, IVec(1, 0, 0)), LAMBDA q2 :
        reb_rotation_mul(q2, q1))))

reb_rotation_init_to_new_axes(newz, newx) ==
    Eval1(reb_rotation_init_from_to(newz, IVec(0, 0, 1)), LAMBDA q1 :
    Eval1(reb_vec3d_irotate(newx, q1), LAMBDA newx1 :
    Eval1(reb_rotation_init_from_to(newx1, IVec(1, 0, 0)), LAMBDA q2 :
        reb_rotation_mul(q2, q1))))

----------------------------------------------------------------------------
(* Angles: the doubles handed to cos/sin and returned by acos/atan2.       *)
(* [w, c, s] is the real number 2*pi*w + phi, phi in [0, 2*pi),            *)
(* c = cos phi, s = sin phi.                                               *)

Angle(w, c, s) == [w |-> w, c |-> c, s |-> s]

\* 0.0 as an angle
AZero == Angle(0, One, Zero)

\* M_PI
M_PI == Angle(0, I(-1), Zero)

\* phi lies in [0, pi)
InLowerHalfTurn(a) == Sgn(a.s) > 0 \/ (Sgn(a.s) = 0 /\ Sgn(a.c) > 0)

\* phi of a is smaller than phi of b
PhiLt(a, b) ==
    IF InLowerHalfTurn(a) # InLowerHalfTurn(b) THEN InLowerHalfTurn(a)
    ELSE Sgn(DSub(DMul(a.c, b.s), DMul(a.s, b.c))) > 0

\* a + b
AAdd(a, b) ==
    Eval2(DSub(DMul(a.c, b.c), DMul(a.s, b.s)),
          DAdd(DMul(a.s, b.c), DMul(a.c, b.s)), LAMBDA c, s :
        Angle(a.w + b.w + (IF PhiLt(Angle(0, c, s), a) THEN 1 ELSE 0), c, s))

\* -a
ANeg(a) ==
    IF a.c = One THEN Angle(-a.w, a.c, a.s)
    ELSE Angle(-a.w - 1, a.c, DNeg(a.s))

\* a - b
ASub(a, b) == AAdd(a, ANeg(b))

\* 2.0 * a
ADouble(a) == AAdd(a, a)

\* a / 2.0
AHalf(a) ==
    Eval2(DSqrt(DDiv(DSub(One, a.c), Two)),
          DSqrt(DDiv(DAdd(One, a.c), Two)), LAMBDA sh, ch0 :
    Eval1(IF Sgn(a.s) >= 0 THEN ch0 ELSE DNeg(ch0), LAMBDA ch :
        IF a.w % 2 = 0 THEN Angle(a.w \div 2, ch, sh)
        ELSE Angle((a.w - 1) \div 2, DNeg(ch), DNeg(sh))))

\* a < 0
ALtZero(a) == a.w < 0

\* fabs(a)
AFabs(a) == IF ALtZero(a) THEN ANeg(a) ELSE a

\* a > MIN_INC, with MIN_INC = 1.e-8.  A nonzero angle of the model has
\* w # 0 or a rational cosine n/d < 1 with d < 2^31, so it is further than
\* 3.e-5 from 0: within the model "a > 1.e-8" is "a > 0".
GtMIN_INC(a) == a.w > 0 \/ (a.w = 0 /\ a.c # One)

\* cos(a), sin(a)
Cos(a) == a.c
Sin(a) == a.s

\* acos(x): the angle in [0, pi] whose cosine is x
Acos(x) == Angle(0, x, DSqrt(DSub(One, DMul(x, x))))

\* atan2(y, x): the angle in (-pi, pi] of the point (x, y); atan2(0, 0) = 0
Atan2(y, x) ==
    IF x = Zero /\ y = Zero THEN AZero
    ELSE Eval1(DSqrt(DAdd(DMul(x, x), DMul(y, y))), LAMBDA r :
         Eval2(DDiv(x, r), DDiv(y, r), LAMBDA c, s :
             Angle(IF Sgn(s) >= 0 THEN 0 ELSE -1, c, s)))

\* the angle stayed within the model's numbers
AngleInDomain(a) == IsFin(a.c) /\ IsFin(a.s)

----------------------------------------------------------------------------
(* Rotations from angles, and back *)

reb_rotation_init_angle_axis(angle, axis0) ==
    Eval2(reb_vec3d_normalize(axis0), AHalf(angle), LAMBDA axis, half :
    Eval2(Cos(half), Sin(half), LAMBDA cos2, sin2 :
    Eval1(reb_vec3d_mul(axis, sin2), LAMBDA imag :
        Quat(imag.x, imag.y, imag.z, cos2))))

\* a plausible slip: P1 and P3 exchanged in the product
reb_rotation_init_orbital_swapped(Omega, inc, omega) ==
    Eval2(IVec(1, 0, 0), IVec(0, 0, 1), LAMBDA x, z :
        reb_rotation_mul(reb_rotation_init_angle_axis(omega, z),
            reb_rotation_mul(reb_rotation_init_angle_axis(inc, x),
                             reb_rotation_init_angle_axis(Omega, z))))

\* P1, P2, P3 of the source are the three arguments of the products
reb_rotation_init_orbital(Omega, inc, omega) ==
    Eval2(IVec(1, 0, 0), IVec(0, 0, 1), LAMBDA x, z :
        reb_rotation_mul(reb_rotation_init_angle_axis(Omega, z),
            reb_rotation_mul(reb_rotation_init_angle_axis(inc, x),
                             reb_rotation_init_angle_axis(omega, z))))

\* lines 266-271: an angle below zero gets M_PI*2.0 added
AddTwoPiIfNegative(a) ==
    IF ALtZero(a) THEN AAdd(a, ADouble(M_PI)) ELSE a

\* the values *Omega, *inc, *omega hold after reb_rotation_to_orbital(q, ...)
reb_rotation_to_orbital(q) ==
    Eval2(q.r, q.iz, LAMBDA ap, bp :
    Eval2(q.ix, q.iy, LAMBDA cp, dp :
    Eval1(Acos(DSub(DMul(Two, DAdd(DMul(ap, ap), DMul(bp, bp))), One)),
          LAMBDA inc :
    Eval2(GtMIN_INC(AFabs(inc)), GtMIN_INC(AFabs(ASub(inc, M_PI))),
          LAMBDA safe1, safe2 :
    Eval2(Atan2(bp, ap), Atan2(dp, cp), LAMBDA half_sum, half_diff :
    Eval2(IF safe1 /\ safe2 THEN ASub(half_sum, half_diff)
          ELSE IF ~safe1 THEN ADouble(half_sum)
          ELSE ADouble(half_diff),
          IF safe1 /\ safe2 THEN AAdd(half_sum, half_diff)
          ELSE AZero, LAMBDA omega0, Omega0 :
        [Omega |-> AddTwoPiIfNegative(Omega0),
         inc   |-> inc,
         omega |-> AddTwoPiIfNegative(omega0)]))))))

----------------------------------------------------------------------------
(* Bounds and input sets *)

\* integer coordinates of the vectors rotated by the algebra operations
MaxCoord == 1

\* largest power k of the rational direction (4 + 3i)/5 used for the
\* inputs of the constructors
MaxK == 4

\* largest number of particles of the simulation
MaxN == 3

\* the inputs of reb_rotation_init_orbital have 0 .. MaxTurns whole turns
MaxTurns == 1

\* (4 + 3i)^k as <<re, im>>, k >= 0
RECURSIVE CPow(_)
CPow(k) ==
    IF k = 0 THEN <<1, 0>>
    ELSE LET c == CPow(k - 1)
         IN <<4 * c[1] - 3 * c[2], 3 * c[1] + 4 * c[2]>>

\* the direction at k times the angle of 4 + 3i, in each coordinate plane,
\* and its opposite
PlaneVecs(k) ==
    LET c == CPow(Abs(k))
        a == c[1]
        b == IF k < 0 THEN -c[2] ELSE c[2]
    IN {IVec(a, b, 0), IVec(0, a, b), IVec(b, 0, a),
        IVec(-a, -b, 0), IVec(0, -a, -b), IVec(-b, 0, -a)}

ConstructVecs ==
    UNION {PlaneVecs(k) : k \in (-MaxK)..MaxK}
      \cup {IVec(1, 2, 2), IVec(-1, -2, -2), IVec(2, 4, 4), IVec(-2, 1, 2)}

AlgebraVecs ==
    {IVec(x, y, z) : x \in (-MaxCoord)..MaxCoord,
                     y \in (-MaxCoord)..MaxCoord,
                     z \in (-MaxCoord)..MaxCoord}

\* unit quaternions, and some that are not of unit length
AlgebraQuats ==
    {IQuat(0, 0, 0, 1), IQuat(1, 0, 0, 0), IQuat(0, 0, 1, 0),
     Quat(MkD(4, 5), Zero, Zero, MkD(3, 5)),
     Quat(Zero, MkD(4, 5), Zero, MkD(3, 5)),
     Quat(MkD(1, 2), MkD(1, 2), MkD(1, 2), MkD(1, 2)),
     Quat(MkD(2, 3), MkD(-2, 3), MkD(1, 3), Zero),
     Quat(MkD(3, 5), Zero, MkD(4, 5), Zero),
     IQuat(2, 0, 0, 0), IQuat(1, 0, 0, 1)}

\* nonzero factors by which an imaginary part is scaled
Scales == {I(-1), I(2), MkD(1, 2)}

SimVecs == {IVec(1, 0, 0), IVec(0, 2, -1)}

SimParticles == {Particle(a, b) : a \in SimVecs, b \in SimVecs}

SimQuats ==
    {IQuat(0, 0, 0, 1), IQuat(0, 0, 1, 0),
     Quat(MkD(1, 2), MkD(1, 2), MkD(1, 2), MkD(1, 2)),
     Quat(MkD(4, 5), Zero, Zero, MkD(3, 5))}

\* angles in [0, 2*pi) whose half is a rational direction, plus whole turns
OrbitalAngles ==
    {Angle(w, c[1], c[2]) :
        w \in 0..MaxTurns,
        c \in {<<One, Zero>>, <<MkD(7, 25), MkD(24, 25)>>,
               <<MkD(-7, 25), MkD(24, 25)>>, <<I(-1), Zero>>,
               <<MkD(-7, 25), MkD(-24, 25)>>, <<MkD(7, 25), MkD(-24, 25)>>}}

IsUnit(q) == reb_rotation_length_squared(q) = One

----------------------------------------------------------------------------
(* State *)

VARIABLES
    qp, qq, vin,        \* algebra: the quaternions p, q and the vector v given
    aq, av, apc,        \* algebra: quaternion result, vector result, position
    va, vb,             \* construction: the two vectors given
    cq, cbranch, cv, cpc,   \* construction: result, branch, rotated vector
    in_Omega, in_inc, in_omega,  \* orbital: the angles given
    oq, oout, opc,      \* orbital: quaternion built, angles extracted
    simN, particles,    \* struct reb_simulation: N and particles[]
    particles0,         \* the particles as they were before the call
    sq, si, visited, spc    \* reb_simulation_irotate: q, i, indices visited

algebraVars == <<qp, qq, vin, aq, av, apc>>
constructVars == <<va, vb, cq, cbranch, cv, cpc>>
orbitalVars == <<in_Omega, in_inc, in_omega, oq, oout, opc>>
simVars == <<simN, particles, particles0, sq, si, visited, spc>>
vars == <<algebraVars, constructVars, orbitalVars, simVars>>

NoAngles == [Omega |-> AZero, inc |-> AZero, omega |-> AZero]

AlgebraIdle ==
    /\ qp = reb_rotation_identity /\ qq = reb_rotation_identity
    /\ vin = IVec(0, 0, 0) /\ aq = reb_rotation_identity
    /\ av = IVec(0, 0, 0) /\ apc = "idle"

ConstructIdle ==
    /\ va = IVec(0, 0, 0) /\ vb = IVec(0, 0, 0)
    /\ cq = reb_rotation_identity /\ cbranch = "none"
    /\ cv = IVec(0, 0, 0) /\ cpc = "idle"

OrbitalIdle ==
    /\ in_Omega = AZero /\ in_inc = AZero /\ in_omega = AZero
    /\ oq = reb_rotation_identity /\ oout = NoAngles /\ opc = "idle"

SimIdle ==
    /\ simN = 0 /\ particles = <<>> /\ particles0 = <<>>
    /\ sq = reb_rotation_identity /\ si = 0 /\ visited = <<>>
    /\ spc = "idle"

----------------------------------------------------------------------------
(* Rotation algebra and application: mul, inverse, rotate *)

AlgebraInit ==
    /\ qp \in AlgebraQuats /\ qq \in AlgebraQuats /\ vin \in AlgebraVecs
    /\ aq = reb_rotation_identity /\ av = vin /\ apc = "init"
    /\ ConstructIdle /\ OrbitalIdle /\ SimIdle

\* aq = reb_rotation_mul(p, q)
Mul ==
    /\ apc = "init"
    /\ aq' = reb_rotation_mul(qp, qq)
    /\ apc' = "mul"
    /\ UNCHANGED <<qp, qq, vin, av, constructVars, orbitalVars, simVars>>

\* av = reb_vec3d_rotate(v, aq) with the product
RotateByProduct ==
    /\ apc = "mul"
    /\ av' = reb_vec3d_rotate(vin, aq)
    /\ apc' = "mulrot"
    /\ UNCHANGED <<qp, qq, vin, aq, constructVars, orbitalVars, simVars>>

\* reb_vec3d_irotate(&av, q)
Rotate ==
    /\ apc = "init"
    /\ av' = reb_vec3d_irotate(av, qq)
    /\ apc' = "rot"
    /\ UNCHANGED <<qp, qq, vin, aq, constructVars, orbitalVars, simVars>>

\* aq = reb_rotation_inverse(q)
Inverse ==
    /\ apc = "rot"
    /\ aq' = reb_rotation_inverse(qq)
    /\ apc' = "inv"
    /\ UNCHANGED <<qp, qq, vin, av, constructVars, orbitalVars, simVars>>

\* reb_vec3d_irotate(&av, aq) with the inverse
RotateBack ==
    /\ apc = "inv"
    /\ av' = reb_vec3d_irotate(av, aq)
    /\ apc' = "back"
    /\ UNCHANGED <<qp, qq, vin, aq, constructVars, orbitalVars, simVars>>

AlgebraNext == Mul \/ RotateByProduct \/ Rotate \/ Inverse \/ RotateBack

SpecAlgebra == AlgebraInit /\ [][AlgebraNext]_vars

----------------------------------------------------------------------------
(* Rotation construction: fromTo and toNewAxes *)

ConstructInit ==
    /\ va \in ConstructVecs /\ vb \in ConstructVecs
    /\ cq = reb_rotation_identity /\ cbranch = "none"
    /\ cv = va /\ cpc = "init"
    /\ AlgebraIdle /\ OrbitalIdle /\ SimIdle

\* cq = reb_rotation_init_from_to(va, vb)
FromTo ==
    /\ cpc = "init"
    /\ \E res \in {reb_rotation_init_from_to_path(va, vb)} :
          /\ QuatInDomain(res.q)
          /\ cq' = res.q
          /\ cbranch' = res.branch
    /\ cpc' = "fromTo"
    /\ UNCHANGED <<va, vb, cv, algebraVars, orbitalVars, simVars>>

\* cv = reb_vec3d_rotate(reb_vec3d_normalize(va), cq)
ApplyFromTo ==
    /\ cpc = "fromTo"
    /\ cv' = reb_vec3d_rotate(reb_vec3d_normalize(va), cq)
    /\ cpc' = "applied"
    /\ UNCHANGED <<va, vb, cq, cbranch, algebraVars, orbitalVars, simVars>>

\* cq = reb_rotation_init_to_new_axes(newz = va, newx = vb)
ToNewAxes ==
    /\ cpc = "init"
    /\ \E res \in {reb_rotation_init_to_new_axes(va, vb)} :
          /\ QuatInDomain(res)
          /\ cq' = res
    /\ cpc' = "toNewAxes"
    /\ UNCHANGED <<va, vb, cbranch, cv, algebraVars, orbitalVars, simVars>>

ConstructNext == FromTo \/ ApplyFromTo \/ ToNewAxes

SpecConstruct == ConstructInit /\ [][ConstructNext]_vars

----------------------------------------------------------------------------
(* Orbital angles: initOrbital and toOrbital *)

OrbitalInit ==
    /\ in_Omega \in OrbitalAngles /\ in_inc \in OrbitalAngles
    /\ in_omega \in OrbitalAngles
    /\ oq = reb_rotation_identity /\ oout = NoAngles /\ opc = "init"
    /\ AlgebraIdle /\ ConstructIdle /\ SimIdle

\* oq = reb_rotation_init_orbital(Omega, inc, omega)
InitOrbital ==
    /\ opc = "init"
    /\ oq' = reb_rotation_init_orbital(in_Omega, in_inc, in_omega)
    /\ opc' = "built"
    /\ UNCHANGED <<in_Omega, in_inc, in_omega, oout,
                   algebraVars, constructVars, simVars>>

\* reb_rotation_to_orbital(oq, &Omega, &inc, &omega)
ToOrbital ==
    /\ opc = "built"
    /\ oout' = reb_rotation_to_orbital(oq)
    /\ opc' = "extracted"
    /\ UNCHANGED <<in_Omega, in_inc, in_omega, oq,
                   algebraVars, constructVars, simVars>>

OrbitalNext == InitOrbital \/ ToOrbital

SpecOrbital == OrbitalInit /\ [][OrbitalNext]_vars

----------------------------------------------------------------------------
(* reb_simulation_irotate: the loop over the particles *)

SimInit ==
    /\ simN \in 0..MaxN
    /\ particles \in [1..simN -> SimParticles]
    /\ particles0 = particles
    /\ sq \in SimQuats
    /\ si = 0 /\ visited = <<>> /\ spc = "call"
    /\ AlgebraIdle /\ ConstructIdle /\ OrbitalIdle

\* const int N = sim->N;  int i = 0;
SimEnter ==
    /\ spc = "call"
    /\ si' = 0
    /\ spc' = "loop"
    /\ UNCHANGED <<simN, particles, particles0, sq, visited,
                   algebraVars, constructVars, orbitalVars>>

\* i < N:  reb_particle_irotate(&sim->particles[i], q);  i++
\* (C index i is position i + 1 of the sequence)
SimIter ==
    /\ spc = "loop"
    /\ si < simN
    /\ particles' = [particles EXCEPT
                        ![si + 1] = reb_particle_irotate(@, sq)]
    /\ visited' = Append(visited, si)
    /\ si' = si + 1
    /\ UNCHANGED <<simN, particles0, sq, spc,
                   algebraVars, constructVars, orbitalVars>>

\* !(i < N): the loop and the function end
SimReturn ==
    /\ spc = "loop"
    /\ ~(si < simN)
    /\ spc' = "done"
    /\ UNCHANGED <<simN, particles, particles0, sq, si, visited,
                   algebraVars, constructVars, orbitalVars>>

SimNext == SimEnter \/ SimIter \/ SimReturn

SpecSim == SimInit /\ [][SimNext]_vars

----------------------------------------------------------------------------
(* Properties of the rotation algebra (SpecAlgebra) *)

\* C1: for unit quaternions p and q and every vector v, rotating v by
\* mul(p, q) gives the vector obtained by rotating v by q first and then
\* by p:  rotate(v, mul(p, q)) = rotate(rotate(v, q), p).
C1_MulAppliesRightFirst ==
    (apc = "mulrot" /\ IsUnit(qp) /\ IsUnit(qq))
        => av = reb_vec3d_rotate(reb_vec3d_rotate(vin, qq), qp)

\* C1 witness: a product of two unit quaternions that do not commute has
\* rotated a vector, and the other order would have given another vector.
C1_Witness ==
    /\ apc = "mulrot" /\ IsUnit(qp) /\ IsUnit(qq)
    /\ av # vin
    /\ av # reb_vec3d_rotate(reb_vec3d_rotate(vin, qp), qq)

\* C8: for every unit quaternion q and every vector v, rotating v by q and
\* then by inverse(q) returns v.
C8_InverseUndoesRotation ==
    (apc = "back" /\ IsUnit(qq)) => av = vin

\* C8 witness: a unit quaternion that is not its own inverse moved the
\* vector, and the inverse has been applied.
C8_Witness ==
    /\ apc = "back" /\ IsUnit(qq)
    /\ aq # qq
    /\ reb_vec3d_rotate(vin, qq) # vin

\* the quaternion (r = 0, imag = s * imag(q))
ScaledPure(q, s) ==
    Quat(DMul(s, q.ix), DMul(s, q.iy), DMul(s, q.iz), Zero)

\* C9 as stated: with r = 0 the rotated vector does not depend on the
\* magnitude of the imaginary part:  rotate(v, (0, s*u)) = rotate(v, (0, u))
\* for every nonzero u, every nonzero s and every v.
C9_MagnitudeIrrelevant ==
    (apc = "rot" /\ qq.r = Zero /\ reb_rotation_imag(qq) # IVec(0, 0, 0))
        => \A s \in Scales :
              reb_vec3d_rotate(vin, ScaledPure(qq, s)) = av

\* C9 amended: with r = 0 the displacement of the rotated vector grows with
\* the square of the scale:
\* rotate(v, (0, s*u)) = v + s^2 * (rotate(v, (0, u)) - v); in particular
\* the result is the same for s = -1 and differs for other magnitudes.
C9_QuadraticInMagnitude ==
    (apc = "rot" /\ qq.r = Zero /\ reb_rotation_imag(qq) # IVec(0, 0, 0))
        => \A s \in Scales :
              reb_vec3d_rotate(vin, ScaledPure(qq, s))
                = reb_vec3d_add(vin,
                    reb_vec3d_mul(
                        reb_vec3d_add(av, reb_vec3d_mul(vin, I(-1))),
                        DMul(s, s)))

\* C9 witness: a quaternion with r = 0 whose imaginary part is not of unit
\* length has moved a vector.
C9_Witness ==
    /\ apc = "rot" /\ qq.r = Zero /\ ~IsUnit(qq)
    /\ reb_rotation_imag(qq) # IVec(0, 0, 0)
    /\ av # vin

----------------------------------------------------------------------------
(* Properties of the particle loop (SpecSim) *)

\* the particle with position rotate(pos, q) and velocity rotate(vel, q),
\* pos and vel those of p
RotatedParticle(p, q) ==
    Particle(reb_vec3d_rotate(Vec(p.x, p.y, p.z), q),
             reb_vec3d_rotate(Vec(p.vx, p.vy, p.vz), q))

\* C7: the loop runs exactly N iterations over the indices 0 .. N-1 in
\* increasing order and then ends; on return every particle has its old
\* position rotated by q as position and its old velocity rotated by q as
\* velocity, each computed from that particle's own old value only.  Up to
\* then i counts the iterations made and the particles from index i on are
\* untouched.
C7_EveryParticleRotatedOnce ==
    /\ si <= simN
    /\ spc # "call" => visited = [k \in 1..si |-> k - 1]
    /\ \A k \in 1..simN :
          particles[k] = IF k <= Len(visited)
                         THEN RotatedParticle(particles0[k], sq)
                         ELSE particles0[k]
    /\ spc = "done" => (si = simN /\ Len(visited) = simN)

\* C7 witness: the call returned after rotating more than one particle, the
\* first with a position that differs from its velocity.
C7_Witness ==
    /\ spc = "done" /\ simN >= 2
    /\ particles[1] # particles0[1] /\ particles[2] # particles0[2]
    /\ particles0[1].x # particles0[1].vx
    /\ particles0[1] # particles0[2]

----------------------------------------------------------------------------
(* Properties of the constructors (SpecConstruct) *)

WorldX == IVec(1, 0, 0)
WorldZ == IVec(0, 0, 1)

\* normalize(a) + normalize(b)
SumOfDirections(a, b) ==
    reb_vec3d_add(reb_vec3d_normalize(a), reb_vec3d_normalize(b))

\* a and b point in opposite directions
Antipodal(a, b) == SumOfDirections(a, b) = IVec(0, 0, 0)

\* the world axis along which the normalized vector from is smallest
SmallestAxis(from) ==
    IF DLe(DFabs(from.x), DFabs(from.y)) /\ DLe(DFabs(from.x), DFabs(from.z))
    THEN IVec(1, 0, 0)
    ELSE IF DLe(DFabs(from.y), DFabs(from.z)) THEN IVec(0, 1, 0)
    ELSE IVec(0, 0, 1)

\* C2: for antipodal inputs fromTo returns from the fallback-axis branch, a
\* quaternion with r = 0 and imaginary part cross(from, worldAxis), every
\* component finite, and that quaternion carries normalize(from) onto
\* normalize(to).
C2_AntipodalFallback ==
    (cpc \in {"fromTo", "applied"} /\ Antipodal(va, vb))
        => /\ cbranch = "fallback"
           /\ QuatFinite(cq)
           /\ cq.r = Zero
           /\ reb_rotation_imag(cq)
                = reb_vec3d_cross(reb_vec3d_normalize(va),
                                  SmallestAxis(reb_vec3d_normalize(va)))
           /\ cpc = "applied" => cv = reb_vec3d_normalize(vb)

\* C3: for all nonzero a and b the rotation fromTo(a, b) carries
\* normalize(a) onto normalize(b).
C3_FromToCarriesFromOntoTo ==
    cpc = "applied" => cv = reb_vec3d_normalize(vb)

\* C10: in the dot(from, to) < 0 branch with from and to not antipodal and
\* half = normalize(from + to), the quaternion returned equals
\* mul(R(half, to), R(from, half)), R the half-vector construction of
\* reb_rotation_init_from_to_reduced.
C10_TwoStageIsProductOfHalves ==
    (cpc \in {"fromTo", "applied"} /\ cbranch = "twostage"
        /\ ~Antipodal(va, vb))
        => cq = reb_rotation_mul(
                  reb_rotation_init_from_to_reduced(
                      reb_vec3d_normalize(SumOfDirections(va, vb)),
                      reb_vec3d_normalize(vb)),
                  reb_rotation_init_from_to_reduced(
                      reb_vec3d_normalize(va),
                      reb_vec3d_normalize(SumOfDirections(va, vb))))

\* C10 witness: fromTo returned a finite quaternion from its two-stage
\* branch, for vectors that are not of unit length.
C10_Witness ==
    /\ cpc = "fromTo" /\ cbranch = "twostage"
    /\ ~Antipodal(va, vb)
    /\ QuatFinite(cq)
    /\ reb_vec3d_length_squared(vb) # One

\* the first stage of toNewAxes as C4 states it, and as the source has it
StageZToNewz == reb_rotation_init_from_to(WorldZ, va)
StageNewzToZ == reb_rotation_init_from_to(va, WorldZ)

\* the second stage after the first stage q1
SecondStage(q1) ==
    reb_rotation_init_from_to(reb_vec3d_rotate(vb, q1), WorldX)

\* q carries the direction of a onto the direction of b, unless they are
\* antipodal: then q has no finite component
CarriesOrNonFinite(q, a, b) ==
    IF Antipodal(a, b)
    THEN ~IsFin(q.r) /\ ~IsFin(q.ix) /\ ~IsFin(q.iy) /\ ~IsFin(q.iz)
    ELSE reb_vec3d_rotate(reb_vec3d_normalize(a), q) = reb_vec3d_normalize(b)

\* C4 as stated: toNewAxes(newz, newx) is fromTo(worldZ, newz) applied first
\* and fromTo(rotatedNewx, worldX) applied second, rotatedNewx being newx
\* after the first rotation.
C4_FirstStageZToNewz ==
    (cpc = "toNewAxes" /\ QuatFinite(cq)
        /\ QuatFinite(SecondStage(StageZToNewz)))
        => cq = reb_rotation_mul(SecondStage(StageZToNewz), StageZToNewz)

\* C4 amended: toNewAxes(newz, newx) is fromTo(newz, worldZ) applied first
\* and fromTo(rotatedNewx, worldX) applied second; the first stage carries
\* newz onto the world z-axis and the second carries the rotated newx onto
\* the world x-axis, a stage with antipodal inputs being non-finite.
C4_FirstStageNewzToZ ==
    cpc = "toNewAxes"
        => /\ cq = reb_rotation_mul(SecondStage(StageNewzToZ), StageNewzToZ)
           /\ CarriesOrNonFinite(StageNewzToZ, va, WorldZ)
           /\ QuatFinite(StageNewzToZ)
                => CarriesOrNonFinite(SecondStage(StageNewzToZ),
                       reb_vec3d_rotate(vb, StageNewzToZ), WorldX)

\* C4 witness: toNewAxes returned a finite rotation, neither stage being the
\* identity.
C4_Witness ==
    /\ cpc = "toNewAxes" /\ QuatFinite(cq)
    /\ StageNewzToZ # reb_rotation_identity
    /\ SecondStage(StageNewzToZ) # reb_rotation_identity
    /\ StageZToNewz # StageNewzToZ

----------------------------------------------------------------------------
(* Properties of the orbital angles (SpecOrbital) *)

\* 0 <= a < 2*pi
InZeroTwoPi(a) == a.w = 0

\* a and b differ by a multiple of 2*pi
SameModTwoPi(a, b) == a.c = b.c /\ a.s = b.s

\* MIN_INC < a < pi - MIN_INC
Inclined(a) == a.w = 0 /\ Sgn(a.s) > 0

\* C5: after toOrbital returns, in every branch, 0 <= Omega < 2*pi and
\* 0 <= omega < 2*pi.
C5_AnglesInHalfOpenRange ==
    opc = "extracted" => (InZeroTwoPi(oout.Omega) /\ InZeroTwoPi(oout.omega))

\* C6: for Omega and omega in [0, 2*pi) and MIN_INC < i < pi - MIN_INC,
\* toOrbital(initOrbital(Omega, i, omega)) returns the same (Omega, i, omega),
\* Omega and omega compared modulo 2*pi.
C6_OrbitalRoundTrip ==
    (opc = "extracted" /\ InZeroTwoPi(in_Omega) /\ InZeroTwoPi(in_omega)
        /\ Inclined(in_inc))
        => /\ oout.inc = in_inc
           /\ SameModTwoPi(oout.Omega, in_Omega)
           /\ SameModTwoPi(oout.omega, in_omega)

\* C6 witness: a round trip with Omega # omega whose sum passes a whole turn,
\* so that atan2 returned a negative half sum.
C6_Witness ==
    /\ opc = "extracted" /\ InZeroTwoPi(in_Omega) /\ InZeroTwoPi(in_omega)
    /\ Inclined(in_inc)
    /\ in_Omega # in_omega
    /\ in_Omega # AZero /\ in_omega # AZero
    /\ AAdd(in_Omega, in_omega).w = 1

====
